---- MODULE Spec2Model ----
(***************************************************************************)
(* The property search subsystem: SearchEngine (search_api/search_engine.py) *)
(* and the HTTP handlers that call it (search_api/app.py).                 *)
(*                                                                         *)
(* Text is a sequence of one-character strings, so that lower(), strip(),  *)
(* split(), the `in` substring test and the regular expressions of         *)
(* _clean_text_for_search are computed character by character.             *)
(* Coordinates are integers in units of 1/1000 degree.                     *)
(***************************************************************************)
EXTENDS Integers, Sequences, FiniteSets, TLC

(***************************************************************************)
(* Python str operations                                                   *)
(***************************************************************************)
Lowers == <<"a","b","c","d","e","f","g","h","i","j","k","l","m",
            "n","o","p","q","r","s","t","u","v","w","x","y","z">>
Uppers == <<"A","B","C","D","E","F","G","H","I","J","K","L","M",
            "N","O","P","Q","R","S","T","U","V","W","X","Y","Z">>
Digits == {"0","1","2","3","4","5","6","7","8","9"}

\* str.isspace(), the class \s of re
IsSpace(c) == c \in {" ", "\t", "\n"}

\* the class \w of re: letters, digits and the underscore
IsWordChar(c) ==
    \/ \E i \in 1..26 : c = Lowers[i] \/ c = Uppers[i]
    \/ c \in Digits
    \/ c = "_"

LowerChar(c) ==
    IF \E i \in 1..26 : c = Uppers[i]
    THEN Lowers[CHOOSE i \in 1..26 : c = Uppers[i]]
    ELSE c

\* str.lower()
Lower(s) == [i \in 1..Len(s) |-> LowerChar(s[i])]

\* str.strip(): drops leading and trailing whitespace
Strip(s) ==
    LET keep == {i \in 1..Len(s) : ~IsSpace(s[i])}
    IN  IF keep = {} THEN <<>>
        ELSE LET lo == CHOOSE i \in keep : \A j \in keep : i <= j
                 hi == CHOOSE i \in keep : \A j \in keep : j <= i
             IN  SubSeq(s, lo, hi)

\* sub in s
Contains(sub, s) ==
    \E i \in 0..(Len(s) - Len(sub)) : SubSeq(s, i + 1, i + Len(sub)) = sub

\* s.startswith(p)
StartsWith(s, p) == Len(p) <= Len(s) /\ SubSeq(s, 1, Len(p)) = p

\* str.split(sep): every piece between separators, empty pieces included
RECURSIVE SplitOn(_, _)
SplitOn(s, sep) ==
    IF \A i \in 1..Len(s) : s[i] # sep THEN <<s>>
    ELSE LET k == CHOOSE i \in 1..Len(s) :
                      s[i] = sep /\ \A j \in 1..(i - 1) : s[j] # sep
         IN  <<SubSeq(s, 1, k - 1)>> \o SplitOn(SubSeq(s, k + 1, Len(s)), sep)

\* str.split(): the maximal runs of non-whitespace
RECURSIVE Split(_)
Split(s) ==
    LET t == Strip(s)
    IN  IF t = <<>> THEN <<>>
        ELSE IF \A i \in 1..Len(t) : ~IsSpace(t[i]) THEN <<t>>
        ELSE LET k == CHOOSE i \in 1..Len(t) :
                          IsSpace(t[i]) /\ \A j \in 1..(i - 1) : ~IsSpace(t[j])
             IN  <<SubSeq(t, 1, k - 1)>> \o Split(SubSeq(t, k + 1, Len(t)))

\* ", ".join-free "a" + "_" + "b" + "_" + "c" of search(), line 197
Join3(a, b, c) == a \o <<"_">> \o b \o <<"_">> \o c

\* re.sub(r'[^\w\s]', ' ', text)
SubPunct(s) ==
    [i \in 1..Len(s) |-> IF IsWordChar(s[i]) \/ IsSpace(s[i]) THEN s[i] ELSE " "]

\* re.sub(r'\s+', ' ', text): every maximal whitespace run becomes one space
SubSpaces(s) ==
    LET kept == SelectSeq([i \in 1..Len(s) |-> i],
                    LAMBDA i : ~IsSpace(s[i]) \/ i = 1 \/ ~IsSpace(s[i - 1]))
    IN  [k \in 1..Len(kept) |-> IF IsSpace(s[kept[k]]) THEN " " ELSE s[kept[k]]]

_clean_text_for_search(text) ==
    IF text = <<>> THEN <<>>
    ELSE Strip(SubSpaces(SubPunct(Lower(text))))

(***************************************************************************)
(* Program constants                                                       *)
(***************************************************************************)
\* scored_results[:200], list(candidates)[:200], len(candidates) >= 200
MaxResults == 200
\* if len(word) > 2
MinWordLen == 2
\* range(3, len(pidn_clean) + 1), if len(query_lower) >= 3
MinPrefixLen == 3

(***************************************************************************)
(* Entries.  An entry is a function from field names to values; a field a  *)
(* record lacks is absent from its domain.  Text values are character      *)
(* sequences; bbox is <<min_lon, min_lat, max_lon, max_lat>> or <<>> for   *)
(* null.  state, property_det and tax_info are carried through unread and  *)
(* are left out.                                                           *)
(***************************************************************************)

\* entry.get(f, ""), entry.get(f): a missing key, null and "" are all falsy
Get(entry, f) == IF f \in DOMAIN entry THEN entry[f] ELSE <<>>

\* A JSON number (not zero) where text is expected: a sequence that starts
\* with a tag no character equals
JsonNumber == <<"#number", "7">>

\* isinstance(value, str), for a value that is not falsy
IsText(value) == value = <<>> \/ value[1] # "#number"

\* An element of the snapshot's array that is a number, not an object
NotObject == [k \in {"#json"} |-> "number"]

IsObject(entry) == "#json" \notin DOMAIN entry

text_fields == <<"owner", "pidn", "mailing_address", "physical_address", "county">>

OriginalKey(f) ==
    CASE f = "owner" -> "owner_original"
      [] f = "pidn" -> "pidn_original"
      [] f = "mailing_address" -> "mailing_address_original"
      [] f = "physical_address" -> "physical_address_original"
      [] f = "county" -> "county_original"

\* the body of the loop of _pre_clean_data for one entry
PreCleanEntry(entry) ==
    LET cleaned == {text_fields[i] : i \in {j \in 1..Len(text_fields) :
                        text_fields[j] \in DOMAIN entry /\ entry[text_fields[j]] # <<>>}}
        originals == {OriginalKey(f) : f \in cleaned}
    IN  [k \in DOMAIN entry \cup originals |->
            IF k \in cleaned THEN _clean_text_for_search(entry[k])
            ELSE IF k \in originals
                 THEN entry[CHOOSE f \in cleaned : OriginalKey(f) = k]
                 ELSE entry[k]]

\* `field in entry` raises TypeError when the entry is a number, and
\* text.lower() raises AttributeError when the value is a number
PreCleanRaises(entry) ==
    \/ ~IsObject(entry)
    \/ \E i \in 1..Len(text_fields) :
           /\ text_fields[i] \in DOMAIN entry
           /\ entry[text_fields[i]] # <<>>
           /\ ~IsText(entry[text_fields[i]])

_pre_clean_data(data) == [i \in 1..Len(data) |-> PreCleanEntry(data[i])]

\* a variant: without a file the engine falls back to a built-in record
_load_search_data_fallback(file) ==
    IF ~file.present \/ ~file.parsable
    THEN <<[owner |-> <<"a","n","n">>]>>
    ELSE IF \E i \in 1..Len(file.records) : PreCleanRaises(file.records[i])
    THEN <<>>
    ELSE _pre_clean_data(file.records)

\* The snapshot file is [present, parsable, records].  open() raises
\* FileNotFoundError when it is not present and json.load raises when it is
\* not parsable; an exception of _pre_clean_data is caught by the same try.
_load_search_data(file) ==
    IF ~file.present THEN <<>>
    ELSE IF ~file.parsable THEN <<>>
    ELSE IF \E i \in 1..Len(file.records) : PreCleanRaises(file.records[i])
    THEN <<>>
    ELSE _pre_clean_data(file.records)

(***************************************************************************)
(* The four indexes: functions from a key to the list of entry positions   *)
(* (0-based, as in the code) appended for it.                              *)
(***************************************************************************)
EmptyIndex == [k \in {} |-> <<>>]

NoIndexes == [owner_index |-> EmptyIndex, parcel_index |-> EmptyIndex,
              address_index |-> EmptyIndex, word_index |-> EmptyIndex]

\* index[key].append(idx) on a defaultdict(list)
AddTo(index, key, idx) ==
    IF key \in DOMAIN index
    THEN [index EXCEPT ![key] = Append(@, idx)]
    ELSE [k \in DOMAIN index \cup {key} |->
              IF k = key THEN <<idx>> ELSE index[k]]

\* a bug: the words of 1 and 2 characters are indexed too
RECURSIVE AddWords_all(_, _, _)
AddWords_all(index, words, idx) ==
    IF words = <<>> THEN index
    ELSE AddWords_all(AddTo(index, Head(words), idx), Tail(words), idx)

\* for word in text.split(): if len(word) > 2: word_index[word].append(idx)
RECURSIVE AddWords(_, _, _)
AddWords(index, words, idx) ==
    IF words = <<>> THEN index
    ELSE AddWords(IF Len(Head(words)) > MinWordLen
                     THEN AddTo(index, Head(words), idx) ELSE index,
                  Tail(words), idx)

\* for i in range(from, len(pidn) + 1): parcel_index[pidn[:i]].append(idx)
RECURSIVE AddPrefixes(_, _, _, _)
AddPrefixes(index, pidn, from, idx) ==
    IF from > Len(pidn) THEN index
    ELSE AddPrefixes(AddTo(index, SubSeq(pidn, 1, from), idx), pidn, from + 1, idx)

\* the body of the loop of _build_indexes for the entry at position idx
IndexEntry(ix, idx, entry) ==
    LET owner_clean == _clean_text_for_search(Get(entry, "owner"))
        pidn_clean == _clean_text_for_search(Get(entry, "pidn"))
        mailing_clean == _clean_text_for_search(Get(entry, "mailing_address"))
        physical_clean == _clean_text_for_search(Get(entry, "physical_address"))
        w1 == IF owner_clean # <<>>
              THEN AddWords(ix.word_index, Split(owner_clean), idx)
              ELSE ix.word_index
        w2 == IF mailing_clean # <<>>
              THEN AddWords(w1, Split(mailing_clean), idx) ELSE w1
        w3 == IF physical_clean # <<>>
              THEN AddWords(w2, Split(physical_clean), idx) ELSE w2
        a1 == IF mailing_clean # <<>>
              THEN AddTo(ix.address_index, mailing_clean, idx)
              ELSE ix.address_index
        a2 == IF physical_clean # <<>>
              THEN AddTo(a1, physical_clean, idx) ELSE a1
    IN  [owner_index |-> IF owner_clean # <<>>
                         THEN AddTo(ix.owner_index, owner_clean, idx)
                         ELSE ix.owner_index,
         parcel_index |-> IF pidn_clean # <<>>
                          THEN AddPrefixes(AddTo(ix.parcel_index, pidn_clean, idx),
                                           pidn_clean, MinPrefixLen, idx)
                          ELSE ix.parcel_index,
         address_index |-> a2,
         word_index |-> w3]

\* Two runs of the loop, one after the other: every bucket of the first is
\* extended by the bucket of the second
ConcatIndex(i1, i2) ==
    [k \in DOMAIN i1 \cup DOMAIN i2 |->
        (IF k \in DOMAIN i1 THEN i1[k] ELSE <<>>)
        \o (IF k \in DOMAIN i2 THEN i2[k] ELSE <<>>)]

ConcatIndexes(x1, x2) ==
    [owner_index |-> ConcatIndex(x1.owner_index, x2.owner_index),
     parcel_index |-> ConcatIndex(x1.parcel_index, x2.parcel_index),
     address_index |-> ConcatIndex(x1.address_index, x2.address_index),
     word_index |-> ConcatIndex(x1.word_index, x2.word_index)]

\* for idx, entry in enumerate(data), over the positions lo..hi (1-based);
\* the range is halved so that the evaluation stays shallow
RECURSIVE IndexRange(_, _, _)
IndexRange(data, lo, hi) ==
    IF lo > hi THEN NoIndexes
    ELSE IF lo = hi THEN IndexEntry(NoIndexes, lo - 1, data[lo])
    ELSE LET mid == (lo + hi) \div 2
         IN  ConcatIndexes(IndexRange(data, lo, mid), IndexRange(data, mid + 1, hi))

_build_indexes(data) == IndexRange(data, 1, Len(data))

(***************************************************************************)
(* State                                                                   *)
(***************************************************************************)
VARIABLES
    snapshot,        \* search_index.json: [present, records]
    search_data,     \* self.search_data
    owner_index,     \* self.owner_index
    parcel_index,    \* self.parcel_index
    address_index,   \* self.address_index
    word_index,      \* self.word_index
    pc,              \* where a running reload_search_data stands: [at, idx]
    call,            \* the operation in progress and its arguments
    ret              \* what it returned

vars == <<snapshot, search_data, owner_index, parcel_index, address_index,
          word_index, pc, call, ret>>

\* a returned value or a raised exception
Ok(v) == [exc |-> "none", value |-> v]
Raise(e) == [exc |-> e, value |-> <<>>]

(***************************************************************************)
(* Candidate retrieval                                                     *)
(***************************************************************************)
\* index[key] guarded by `key in index`, as a set of positions
Bucket(index, key) ==
    IF key \in DOMAIN index
    THEN {index[key][i] : i \in 1..Len(index[key])}
    ELSE {}

\* a variant: the order of the list changes from one call to the next
SetToList_unstable(S) ==
    IF S = {} THEN <<>>
    ELSE LET hi == CHOOSE m \in S : \A x \in S : x <= m
             up == SelectSeq([i \in 1..(hi + 1) |-> i - 1], LAMBDA i : i \in S)
         IN  IF call.op = "search"
             THEN [i \in 1..Len(up) |-> up[Len(up) + 1 - i]]
             ELSE up

\* list(candidates) of a set of small non-negative ints: CPython stores an
\* int at the slot of its own value (the table is larger than every position
\* of these datasets), so the list is in ascending order
SetToList(S) ==
    IF S = {} THEN <<>>
    ELSE LET hi == CHOOSE m \in S : \A x \in S : x <= m
         IN  SelectSeq([i \in 1..(hi + 1) |-> i - 1], LAMBDA i : i \in S)

Take(seq, n) == SubSeq(seq, 1, IF Len(seq) < n THEN Len(seq) ELSE n)

\* "Strategy 1": exact matches in the owner, parcel and address indexes
ExactMatches(query_lower) ==
    Bucket(owner_index, query_lower)
    \cup Bucket(parcel_index, query_lower)
    \cup Bucket(address_index, query_lower)

\* "Strategy 2": the buckets of the query's words of more than 2 characters
WordMatches(query_words) ==
    UNION {Bucket(word_index, query_words[i]) :
           i \in {j \in 1..Len(query_words) : Len(query_words[j]) > MinWordLen}}

\* "Strategy 3": the buckets of the query's prefixes of 3 characters and more
PartialMatches(query_lower) ==
    UNION {Bucket(parcel_index, SubSeq(query_lower, 1, n)) :
           n \in MinPrefixLen..Len(query_lower)}

\* "Early exit if we have enough candidates": candidates holds the exact
\* matches and the word matches
EarlyExit(query_lower, query_words) ==
    Cardinality(ExactMatches(query_lower) \cup WordMatches(query_words))
        >= MaxResults

_fast_search(query) ==
    LET query_lower == Strip(Lower(query))
        query_words == Split(query_lower)
        candidates == ExactMatches(query_lower) \cup WordMatches(query_words)
    IN  IF EarlyExit(query_lower, query_words)
        THEN Take(SetToList(candidates), MaxResults)
        ELSE SetToList(candidates \cup PartialMatches(query_lower))

(***************************************************************************)
(* Scoring                                                                 *)
(***************************************************************************)
\* any(word in text for word in query_words)
AnyWordIn(query_words, text) ==
    \E i \in 1..Len(query_words) : Contains(query_words[i], text)

\* all(word in text for word in query_words)
AllWordsIn(query_words, text) ==
    \A i \in 1..Len(query_words) : Contains(query_words[i], text)

F_owner == <<"o","w","n","e","r">>
F_pidn == <<"p","i","d","n">>
F_mailing_address ==
    <<"m","a","i","l","i","n","g","_","a","d","d","r","e","s","s">>
F_physical_address ==
    <<"p","h","y","s","i","c","a","l","_","a","d","d","r","e","s","s">>
F_county == <<"c","o","u","n","t","y">>

\* one round of the loop of _score_by_fields
FieldScore(entry, query_lower, query_words, field) ==
    LET field_lower == Lower(field)
    IN  IF field_lower = F_owner THEN
            IF Get(entry, "owner") # <<>>
               /\ AnyWordIn(query_words, Lower(Get(entry, "owner")))
            THEN 500 ELSE 0
        ELSE IF field_lower = F_pidn THEN
            IF Get(entry, "pidn") # <<>>
               /\ Contains(query_lower, Lower(Get(entry, "pidn")))
            THEN 400 ELSE 0
        ELSE IF field_lower = F_mailing_address THEN
            IF Get(entry, "mailing_address") # <<>>
               /\ AnyWordIn(query_words, Lower(Get(entry, "mailing_address")))
            THEN 300 ELSE 0
        ELSE IF field_lower = F_physical_address THEN
            IF Get(entry, "physical_address") # <<>>
               /\ AnyWordIn(query_words, Lower(Get(entry, "physical_address")))
            THEN 300 ELSE 0
        ELSE IF field_lower = F_county THEN
            IF Get(entry, "county") # <<>>
               /\ Contains(query_lower, Lower(Get(entry, "county")))
            THEN 200 ELSE 0
        ELSE 0

Max(a, b) == IF a >= b THEN a ELSE b

RECURSIVE MaxFieldScore(_, _, _, _, _)
MaxFieldScore(entry, query_lower, query_words, field_filter, score) ==
    IF field_filter = <<>> THEN score
    ELSE MaxFieldScore(entry, query_lower, query_words, Tail(field_filter),
             Max(score, FieldScore(entry, query_lower, query_words,
                                   Head(field_filter))))

\* a bug: a full match of the owner earns no more than a one-word match
OwnerScore_flat(entry, query_lower, query_words) ==
    LET owner == Get(entry, "owner")
    IN  IF owner = <<>> THEN 0
        ELSE IF AnyWordIn(query_words, Lower(owner)) THEN 400
        ELSE 0

OwnerScore(entry, query_lower, query_words) ==
    LET owner == Get(entry, "owner")
    IN  IF owner = <<>> THEN 0
        ELSE IF Contains(query_lower, Lower(owner)) THEN 1000
        ELSE IF AllWordsIn(query_words, Lower(owner)) THEN 800
        ELSE IF AnyWordIn(query_words, Lower(owner)) THEN 400
        ELSE 0

ParcelScore(entry, query_lower) ==
    LET parcel_id == Get(entry, "pidn")
    IN  IF parcel_id = <<>> THEN 0
        ELSE IF Contains(query_lower, Lower(parcel_id)) THEN 600
        ELSE IF StartsWith(Lower(parcel_id), query_lower) THEN 500
        ELSE 0

\* a variant: one word of the query in an address earns the full 300
AddressScore_flat(address, query_lower, query_words) ==
    IF address = <<>> THEN 0
    ELSE IF AnyWordIn(query_words, Lower(address)) THEN 300
    ELSE 0

AddressScore(address, query_lower, query_words) ==
    IF address = <<>> THEN 0
    ELSE IF Contains(query_lower, Lower(address)) THEN 300
    ELSE IF AnyWordIn(query_words, Lower(address)) THEN 150
    ELSE 0

_score_all_fields(entry, query_lower, query_words) ==
    OwnerScore(entry, query_lower, query_words)
    + ParcelScore(entry, query_lower)
    + AddressScore(Get(entry, "mailing_address"), query_lower, query_words)
    + AddressScore(Get(entry, "physical_address"), query_lower, query_words)

\* a bug: the field filter is ignored and every field is scored
_score_by_fields_all(entry, query_lower, query_words, field_filter) ==
    _score_all_fields(entry, query_lower, query_words)

_score_by_fields(entry, query_lower, query_words, field_filter) ==
    MaxFieldScore(entry, query_lower, query_words, field_filter, 0)

\* 0.01, 0.1 and 0.5 degrees in units of 1/1000 degree
VeryClose == 10
Close == 100
Moderate == 500

\* a bug: the boost of an entry with a bbox is never awarded
_calculate_spatial_boost_none(entry, spatial_params) == 0

\* spatial_params is <<>> (None) or <<[lat |-> .., lon |-> ..]>>.  With d the
\* distance in 1/1000 degree, D2 = 4 d^2 (the centre is half the corner sum).
_calculate_spatial_boost(entry, spatial_params) ==
    LET bbox == Get(entry, "bbox")
    IN  IF bbox = <<>> \/ Len(bbox) # 4 THEN 0
        ELSE LET dlon == (bbox[1] + bbox[3]) - 2 * spatial_params[1].lon
                 dlat == (bbox[2] + bbox[4]) - 2 * spatial_params[1].lat
                 D2 == dlon * dlon + dlat * dlat
             IN  IF D2 < 4 * VeryClose * VeryClose THEN 1000
                 ELSE IF D2 < 4 * Close * Close THEN 500
                 ELSE IF D2 < 4 * Moderate * Moderate THEN 100
                 ELSE 0

\* the score before the flat bonuses: text score, then the spatial boost
\* a bug: the spatial boost is added whatever the score
BaseScore_boosted(entry, query_lower, query_words, field_filter, spatial_params) ==
    LET score == IF field_filter # <<>>
                 THEN _score_by_fields(entry, query_lower, query_words, field_filter)
                 ELSE _score_all_fields(entry, query_lower, query_words)
    IN  IF spatial_params # <<>>
        THEN score + _calculate_spatial_boost(entry, spatial_params)
        ELSE score

BaseScore(entry, query_lower, query_words, field_filter, spatial_params) ==
    LET score == IF field_filter # <<>>
                 THEN _score_by_fields(entry, query_lower, query_words, field_filter)
                 ELSE _score_all_fields(entry, query_lower, query_words)
    IN  IF spatial_params # <<>> /\ score > 0
        THEN score + _calculate_spatial_boost(entry, spatial_params)
        ELSE score

\* "Boost for complete matches" of _score_and_filter
FlatBonus(entry) ==
    (IF Get(entry, "physical_address") # <<>> THEN 50 ELSE 0)
    + (IF Get(entry, "clerk_rec") # <<>> THEN 25 ELSE 0)

\* the score _score_and_filter sorts by (0: the candidate is dropped)
IndexedScore(entry, query, field_filter, spatial_params) ==
    LET query_lower == Strip(Lower(query))
        score == BaseScore(entry, query_lower, Split(query_lower),
                           field_filter, spatial_params)
    IN  IF score > 0 THEN score + FlatBonus(entry) ELSE score

\* the score _search_filtered sorts by
FilteredScore(entry, query, field_filter, spatial_params) ==
    LET query_lower == Strip(Lower(query))
    IN  BaseScore(entry, query_lower, Split(query_lower), field_filter,
                  spatial_params)

\* a bug: the sort reverses the order of the results of one score
RECURSIVE SortByScore_unstable(_)
SortByScore_unstable(scored) ==
    IF scored = <<>> THEN <<>>
    ELSE LET top == CHOOSE m \in {scored[i].score : i \in 1..Len(scored)} :
                        \A i \in 1..Len(scored) : scored[i].score <= m
             ties == SelectSeq(scored, LAMBDA r : r.score = top)
         IN  [i \in 1..Len(ties) |-> ties[Len(ties) + 1 - i]]
             \o SortByScore_unstable(SelectSeq(scored, LAMBDA r : r.score # top))

\* list.sort(key=score, reverse=True): stable, descending
RECURSIVE SortByScore(_)
SortByScore(scored) ==
    IF scored = <<>> THEN <<>>
    ELSE LET top == CHOOSE m \in {scored[i].score : i \in 1..Len(scored)} :
                        \A i \in 1..Len(scored) : scored[i].score <= m
         IN  SelectSeq(scored, LAMBDA r : r.score = top)
             \o SortByScore(SelectSeq(scored, LAMBDA r : r.score # top))

\* a bug: the scored results are cut to 200 without being sorted
TopEntries_unsorted(scored_results) ==
    LET top == Take(scored_results, MaxResults)
    IN  [i \in 1..Len(top) |-> top[i].entry]

\* [result["entry"] for result in scored_results[:200]]
TopEntries(scored_results) ==
    LET top == Take(SortByScore(scored_results), MaxResults)
    IN  [i \in 1..Len(top) |-> top[i].entry]

_score_and_filter(query, candidate_indices, field_filter, spatial_params) ==
    IF candidate_indices = <<>> THEN Ok(<<>>)
    ELSE IF \E i \in 1..Len(candidate_indices) :
                candidate_indices[i] >= Len(search_data)
    THEN Raise("IndexError")
    ELSE LET scored == [i \in 1..Len(candidate_indices) |->
                 [entry |-> search_data[candidate_indices[i] + 1],
                  score |-> IndexedScore(search_data[candidate_indices[i] + 1],
                                query, field_filter, spatial_params)]]
         IN  Ok(TopEntries(SelectSeq(scored, LAMBDA r : r.score > 0)))

_search_filtered(query, filtered_data, field_filter, spatial_params) ==
    LET scored == [i \in 1..Len(filtered_data) |->
            [entry |-> filtered_data[i],
             score |-> FilteredScore(filtered_data[i], query, field_filter,
                                     spatial_params)]]
    IN  Ok(TopEntries(SelectSeq(scored, LAMBDA r : r.score > 0)))

\* uid.split("_")[0] + "_" + uid.split("_")[1] + "_" + uid.split("_")[2]
CountyCode(uid) ==
    LET parts == SplitOn(uid, "_")
    IN  Join3(parts[1], parts[2], parts[3])

\* the county-filter loop raises at a uid with "_" and fewer than 3 pieces
UidRaises(entry) ==
    LET uid == Get(entry, "global_parcel_uid")
    IN  /\ uid # <<>>
        /\ Contains(<<"_">>, uid)
        /\ Len(SplitOn(uid, "_")) < 3

\* a bug: the county code is not compared with the filter
InCounties_any(entry, county_filter) ==
    LET uid == Get(entry, "global_parcel_uid")
    IN  uid # <<>> /\ Contains(<<"_">>, uid)

InCounties(entry, county_filter) ==
    LET uid == Get(entry, "global_parcel_uid")
    IN  /\ uid # <<>>
        /\ Contains(<<"_">>, uid)
        /\ \E i \in 1..Len(county_filter) : county_filter[i] = CountyCode(uid)

\* a bug: the query is not stripped before the test
EmptyQuery_unstripped(query) == query = <<>>

\* not query or not query.strip()
EmptyQuery(query) == query = <<>> \/ Strip(query) = <<>>

\* county_filter and field_filter are lists (<<>>: None or empty)
search(query, county_filter, field_filter, spatial_params) ==
    IF search_data = <<>> THEN Ok(<<>>)
    ELSE IF EmptyQuery(query) THEN Ok(<<>>)
    ELSE IF county_filter # <<>> THEN
        IF \E i \in 1..Len(search_data) : UidRaises(search_data[i])
        THEN Raise("IndexError")
        ELSE LET filtered_data ==
                     SelectSeq(search_data, LAMBDA e : InCounties(e, county_filter))
             IN  IF filtered_data = <<>> THEN Ok(<<>>)
                 ELSE _search_filtered(query, filtered_data, field_filter,
                                       spatial_params)
    ELSE LET candidate_indices == _fast_search(query)
         IN  IF candidate_indices = <<>> THEN Ok(<<>>)
             ELSE _score_and_filter(query, candidate_indices, field_filter,
                                    spatial_params)

(***************************************************************************)
(* get_search_stats and the HTTP handlers of app.py                        *)
(***************************************************************************)
T_unknown == <<"u","n","k","n","o","w","n">>

\* entry.get("county", "unknown")
CountyOf(entry) == IF "county" \in DOMAIN entry THEN entry["county"] ELSE T_unknown

\* counties is a JSON array ("list") in the first return and an object
\* ("dict") in the second; the first return has no index_sizes
get_search_stats ==
    IF search_data = <<>>
    THEN [total_entries |-> 0,
          counties |-> [type |-> "list", items |-> EmptyIndex]]
    ELSE [total_entries |-> Len(search_data),
          counties |->
              [type |-> "dict",
               items |-> [c \in {CountyOf(search_data[i]) : i \in 1..Len(search_data)} |->
                             Cardinality({i \in 1..Len(search_data) :
                                              CountyOf(search_data[i]) = c})]],
          index_sizes |-> [owner_index |-> Cardinality(DOMAIN owner_index),
                           parcel_index |-> Cardinality(DOMAIN parcel_index),
                           word_index |-> Cardinality(DOMAIN word_index)]]

\* [county.strip() for county in counties.split(',') if county.strip()]
ParseCounties(counties) ==
    IF counties = <<>> THEN <<>>
    ELSE LET parts == SplitOn(counties, ",")
             stripped == [i \in 1..Len(parts) |-> Strip(parts[i])]
         IN  SelectSeq(stripped, LAMBDA c : c # <<>>)

\* the fields of the response model SearchResult that the model carries
ResultFields ==
    {"global_parcel_uid", "pidn", "owner", "mailing_address",
     "physical_address", "county", "bbox", "clerk_rec"}

\* SearchResult(f=result.get(f) or "", ..., bbox=result.get("bbox")): the
\* fields of the response model and no other key of the entry
SearchResult(result) == [f \in ResultFields |-> Get(result, f)]

\* SearchResponse(results=search_results, total_results=len(search_results))
SearchResponse(results) ==
    [status |-> 200,
     results |-> [i \in 1..Len(results) |-> SearchResult(results[i])],
     total_results |-> Len(results)]

\* HTTPException(status_code=...)
HTTPException(status_code) ==
    [status |-> status_code, results |-> <<>>, total_results |-> 0]

\* a variant: the limit is not applied
Respond_uncut(r, limit) ==
    IF r.exc # "none" THEN HTTPException(500)
    ELSE SearchResponse(r.value)

\* what the handler makes of the outcome r of search_engine.search
Respond(r, limit) ==
    IF r.exc # "none" THEN HTTPException(500)
    ELSE SearchResponse(IF limit > 0 THEN Take(r.value, limit) ELSE r.value)

\* GET /search: limit is 0 (falsy) or a positive number
search_properties(q, limit, counties) ==
    IF EmptyQuery(q) THEN HTTPException(400)
    ELSE Respond(search(q, ParseCounties(counties), <<>>, <<>>), limit)

(***************************************************************************)
(* Inputs                                                                  *)
(***************************************************************************)
\* records per snapshot, the largest limit of a request, and how often a
\* client repeats a call
MaxRecs == 2
MaxLimit == 2
MaxCalls == 2

\* county codes and the labels clean_county_name makes of them
T_county == <<"c","o","u","n","t","y">>
T_County == <<"C","o","u","n","t","y">>
T_ada_county_id == <<"a","d","a","_">> \o T_county \o <<"_","i","d">>
T_bay_county_wy == <<"b","a","y","_">> \o T_county \o <<"_","w","y">>
T_Ada_County == <<"A","d","a"," ">> \o T_County
T_Bay_County == <<"B","a","y"," ">> \o T_County
T_Ann_Lee == <<"A","n","n"," ","L","e","e">>
T_Ann_Roe == <<"A","n","n"," ","R","o","e">>
T_Lee == <<"L","e","e">>
T_Roe_Lee == <<"R","o","e","-","L","e","e">>

DigitChars == <<"0","1","2","3","4","5","6","7","8","9">>

\* str(n) for n >= 0
RECURSIVE NumText(_)
NumText(n) ==
    IF n < 10 THEN <<DigitChars[n + 1]>>
    ELSE NumText(n \div 10) \o <<DigitChars[(n % 10) + 1]>>

\* The records the ingestion pipeline writes (create_search_index)
P_ada1 ==
    [global_parcel_uid |-> T_ada_county_id \o <<"_","1">>,
     pidn |-> <<"R","0","0","8","4">>,
     owner |-> T_Ann_Lee,
     mailing_address |-> <<>>,
     physical_address |-> <<>>,
     county |-> T_Ada_County,
     bbox |-> <<1000, 2000, 1004, 2004>>,
     clerk_rec |-> <<>>]

P_bay1 ==
    [global_parcel_uid |-> T_bay_county_wy \o <<"_","1">>,
     pidn |-> <<"R","0","0","8","5">>,
     owner |-> T_Ann_Lee,
     mailing_address |-> <<>>,
     physical_address |-> <<>>,
     county |-> T_Bay_County,
     bbox |-> <<>>,
     clerk_rec |-> <<>>]

P_ada2 ==
    [global_parcel_uid |-> T_ada_county_id \o <<"_","2">>,
     pidn |-> <<"X","7">>,
     owner |-> T_Ann_Roe,
     mailing_address |-> T_Ann_Lee \o <<",", " ", "1", " ", "E","l","m">>,
     physical_address |-> <<"c","/","o"," ">> \o T_Ann_Lee,
     county |-> T_Ada_County,
     bbox |-> <<1040, 2000, 1060, 2004>>,
     clerk_rec |-> <<"u","r","l">>]

P_bay2 ==
    [global_parcel_uid |-> T_bay_county_wy \o <<"_","2">>,
     pidn |-> <<"B","1","2">>,
     owner |-> T_Roe_Lee,
     mailing_address |-> <<"0","0","8","4"," ","E","l","m">>,
     physical_address |-> <<>>,
     county |-> T_Bay_County,
     bbox |-> <<1000, 2000, 1004, 2004>>,
     clerk_rec |-> <<>>]

Pool == {P_ada1, P_bay1, P_ada2, P_bay2}

\* one of many parcels of one owner
Filler(i) ==
    [global_parcel_uid |-> T_bay_county_wy \o <<"_">> \o NumText(100 + i),
     pidn |-> <<"F">> \o NumText(i),
     owner |-> T_Lee,
     mailing_address |-> <<>>,
     physical_address |-> <<>>,
     county |-> T_Bay_County,
     bbox |-> <<>>,
     clerk_rec |-> <<>>]

\* more parcels of one owner than a result holds, then one of Ann Lee
Bulk == [i \in 1..(MaxResults + 1) |-> Filler(i)] \o <<P_ada1>>

\* the sequences of at most n different records of the pool
RECURSIVE SeqsUpTo(_)
SeqsUpTo(n) ==
    IF n = 0 THEN {<<>>}
    ELSE LET shorter == SeqsUpTo(n - 1)
         IN  shorter \cup
             UNION {{Append(s, r) : r \in {x \in Pool :
                                       \A i \in 1..Len(s) : s[i] # x}} :
                    s \in {t \in shorter : Len(t) = n - 1}}

\* a record of another source: a short uid and no field but the owner
P_short ==
    [global_parcel_uid |-> <<"a","d","a","_","7">>,
     owner |-> T_Ann_Lee]

\* a record whose owner is a number
P_number == [P_bay1 EXCEPT !.owner = JsonNumber]

\* snapshots with a record the pipeline does not write
Irregular == {<<P_short, P_ada1>>, <<P_ada1, P_number>>, <<NotObject, P_ada1>>}

Missing == [present |-> FALSE, parsable |-> FALSE, records |-> <<>>]
Unparsable == [present |-> TRUE, parsable |-> FALSE, records |-> <<>>]
File(records) == [present |-> TRUE, parsable |-> TRUE, records |-> records]

Snapshots ==
    {File(d) : d \in SeqsUpTo(MaxRecs) \cup {Bulk} \cup Irregular}
    \cup {Missing, Unparsable}

\* what the pipeline leaves behind when it runs while the engine is up
PipelineOutputs ==
    {Missing, Unparsable, File(<<P_bay1, P_ada1>>), File(<<P_bay2>>)}

Queries ==
    { <<"a","n","n"," ","l","e","e">>,
      <<"L","E","E">>,
      <<" ","r","o","e"," ","a","n","n">>,
      <<"0","0","8","4">>,
      <<"r","0","0">>,
      <<"A","d","a">>,
      <<"e","l","m"," ","s","t">>,
      T_Roe_Lee,
      <<>>,
      <<" ","\t">> }

CountyFilters == {<<>>, <<T_ada_county_id>>, <<T_bay_county_wy, T_ada_county_id>>}

FieldFilters ==
    { <<>>,
      <<F_pidn>>,
      <<F_county>>,
      <<<<"O","w","n","e","r">>, F_mailing_address>> }

\* a point inside the bbox of P_ada1
Hint == [lat |-> 2002, lon |-> 1002]

SpatialParams == {<<>>, <<Hint>>}

\* the counties parameter of GET /search
CountiesParams ==
    { <<>>,
      T_Ada_County,
      T_ada_county_id,
      T_bay_county_wy \o <<",", " ">> \o T_ada_county_id }

(***************************************************************************)
(* Specification: every handler runs to completion (app.py declares them   *)
(* async and they never await)                                             *)
(***************************************************************************)
Idle == [op |-> "idle"]
NoRet == Ok(<<>>)
NoReload == [at |-> "idle", idx |-> 0]

Engine(data, ix) ==
    /\ search_data' = data
    /\ owner_index' = ix.owner_index
    /\ parcel_index' = ix.parcel_index
    /\ address_index' = ix.address_index
    /\ word_index' = ix.word_index

\* SearchEngine.__init__
Init ==
    /\ snapshot \in Snapshots
    /\ search_data = _load_search_data(snapshot)
    /\ LET ix == _build_indexes(search_data)
       IN  /\ owner_index = ix.owner_index
           /\ parcel_index = ix.parcel_index
           /\ address_index = ix.address_index
           /\ word_index = ix.word_index
    /\ pc = NoReload
    /\ call = [op |-> "__init__"]
    /\ ret = NoRet

engineVars == <<search_data, owner_index, parcel_index, address_index, word_index>>

\* a bug: index[key] is read without the test, and the defaultdict makes an
\* empty bucket for a key it does not hold
Probe_unguarded(index, key) ==
    IF key \in DOMAIN index THEN index
    ELSE [k \in DOMAIN index \cup {key} |-> IF k = key THEN <<>> ELSE index[k]]

\* the index after `if key in index: ... index[key]`: the bucket is read
\* only when the key is there, so the defaultdict gets no new key
Probe(index, key) == index

RECURSIVE ProbeAll(_, _)
ProbeAll(index, keys) ==
    IF keys = <<>> THEN index
    ELSE ProbeAll(Probe(index, Head(keys)), Tail(keys))

\* the four indexes after search has run: only _fast_search reads them
Probed(query, county_filter) ==
    LET query_lower == Strip(Lower(query))
        query_words == Split(query_lower)
        prefixes == IF EarlyExit(query_lower, query_words) THEN <<>>
                    ELSE [n \in 1..(Len(query_lower) - MinPrefixLen + 1) |->
                              SubSeq(query_lower, 1, n + MinPrefixLen - 1)]
    IN  IF search_data = <<>> \/ EmptyQuery(query) \/ county_filter # <<>>
        THEN [owner_index |-> owner_index, parcel_index |-> parcel_index,
              address_index |-> address_index, word_index |-> word_index]
        ELSE [owner_index |-> Probe(owner_index, query_lower),
              parcel_index |-> ProbeAll(parcel_index, <<query_lower>> \o prefixes),
              address_index |-> Probe(address_index, query_lower),
              word_index |->
                  ProbeAll(word_index,
                           SelectSeq(query_words, LAMBDA w : Len(w) > MinWordLen))]

\* the engine after search: the records as they were, the indexes as the
\* lookups of _fast_search leave them
AfterSearch(probed) == Engine(search_data, probed)

Search(q, cf, ff, sp) ==
    /\ call = Idle
    /\ call' = [op |-> "search", query |-> q, county_filter |-> cf,
                field_filter |-> ff, spatial_params |-> sp, calls |-> 1]
    /\ ret' = search(q, cf, ff, sp)
    /\ AfterSearch(Probed(q, cf))
    /\ UNCHANGED <<snapshot, pc>>

\* the client calls search again with the same arguments
SearchAgain ==
    /\ call.op = "search"
    /\ call.calls < MaxCalls
    /\ pc = NoReload
    /\ call' = [call EXCEPT !.calls = @ + 1]
    /\ ret' = search(call.query, call.county_filter, call.field_filter,
                     call.spatial_params)
    /\ AfterSearch(Probed(call.query, call.county_filter))
    /\ UNCHANGED <<snapshot, pc>>

SearchProperties(q, limit, counties) ==
    /\ call = Idle
    /\ pc = NoReload
    /\ call' = [op |-> "search_properties", q |-> q, limit |-> limit,
                counties |-> counties]
    /\ ret' = Ok(search_properties(q, limit, counties))
    /\ AfterSearch(Probed(q, ParseCounties(counties)))
    /\ UNCHANGED <<snapshot, pc>>

GetStats ==
    /\ call = Idle
    /\ pc = NoReload
    /\ call' = [op |-> "get_search_stats"]
    /\ ret' = Ok(get_search_stats)
    /\ UNCHANGED <<snapshot, engineVars, pc>>

\* _build_indexes on the records just loaded
Loaded(data) == [data |-> data, ix |-> _build_indexes(data)]

\* a variant: the records read are added to the ones already held
reload_search_data_append(file) ==
    Loaded(search_data \o _load_search_data(file))

\* a bug: _build_indexes does not reset the indexes before filling them
reload_search_data_stale(file) ==
    [data |-> _load_search_data(file),
     ix |-> ConcatIndexes([owner_index |-> owner_index, parcel_index |-> parcel_index,
                           address_index |-> address_index, word_index |-> word_index],
                          _build_indexes(_load_search_data(file)))]

\* self._load_search_data(); self._build_indexes()
reload_search_data(file) == Loaded(_load_search_data(file))

\* the engine after the reload, and the handler's total_entries
Reloaded(new) ==
    /\ Engine(new.data, new.ix)
    /\ ret' = Ok([total_entries |-> Len(new.data)])

\* POST /reload: reload_search_data, then the number of entries
Reload ==
    /\ call = Idle
    /\ pc = NoReload
    /\ Reloaded(reload_search_data(snapshot))
    /\ call' = [op |-> "reload_search_data", calls |-> 1]
    /\ UNCHANGED <<snapshot, pc>>

\* POST /reload once more, the file being as it was
ReloadAgain ==
    /\ call.op = "reload_search_data"
    /\ call.calls < MaxCalls
    /\ pc = NoReload
    /\ Reloaded(reload_search_data(snapshot))
    /\ call' = [call EXCEPT !.calls = @ + 1]
    /\ UNCHANGED <<snapshot, pc>>

\* the ingestion pipeline replaces or removes search_index.json
WriteSnapshot(file) ==
    /\ call = Idle
    /\ pc = NoReload
    /\ file # snapshot
    /\ snapshot' = file
    /\ UNCHANGED <<engineVars, pc, call, ret>>

\* the handler's response has been delivered
Return ==
    /\ call # Idle
    /\ call' = Idle
    /\ ret' = NoRet
    /\ UNCHANGED <<snapshot, engineVars, pc>>

Next ==
    \/ \E q \in Queries, cf \in CountyFilters, ff \in FieldFilters,
          sp \in SpatialParams : pc = NoReload /\ Search(q, cf, ff, sp)
    \/ \E q \in Queries, limit \in 0..MaxLimit, counties \in CountiesParams :
          SearchProperties(q, limit, counties)
    \/ GetStats
    \/ Reload
    \/ \E file \in PipelineOutputs : WriteSnapshot(file)
    \/ Return
    \/ SearchAgain
    \/ ReloadAgain

Spec == Init /\ [][Next]_vars

(***************************************************************************)
(* Specification with threads: reload_search_data runs statement by        *)
(* statement on one thread while searches run on another.  The class takes *)
(* no lock, so a search may run between any two statements of a reload.    *)
(***************************************************************************)
InitThreads ==
    /\ Init
    /\ snapshot # File(Bulk)

\* self._load_search_data(): self.search_data is replaced first
ReloadLoad ==
    /\ pc = NoReload
    /\ search_data' = _load_search_data(snapshot)
    /\ pc' = [at |-> "clear", idx |-> 0]
    /\ UNCHANGED <<snapshot, owner_index, parcel_index, address_index,
                   word_index, call, ret>>

\* _build_indexes: "Clear existing indexes"
BuildClear ==
    /\ pc.at = "clear"
    /\ Engine(search_data, NoIndexes)
    /\ pc' = [at |-> "index", idx |-> 0]
    /\ UNCHANGED <<snapshot, call, ret>>

\* _build_indexes: one round of the loop over enumerate(self.search_data)
BuildEntry ==
    /\ pc.at = "index"
    /\ pc.idx < Len(search_data)
    /\ Engine(search_data,
              IndexEntry([owner_index |-> owner_index,
                          parcel_index |-> parcel_index,
                          address_index |-> address_index,
                          word_index |-> word_index],
                         pc.idx, search_data[pc.idx + 1]))
    /\ pc' = [pc EXCEPT !.idx = @ + 1]
    /\ UNCHANGED <<snapshot, call, ret>>

\* the loop is over and reload_search_data returns
BuildDone ==
    /\ pc.at = "index"
    /\ pc.idx >= Len(search_data)
    /\ pc' = NoReload
    /\ UNCHANGED <<snapshot, engineVars, call, ret>>

NextThreads ==
    \/ \E q \in Queries, cf \in CountyFilters : Search(q, cf, <<>>, <<>>)
    \/ Return
    \/ \E file \in PipelineOutputs : WriteSnapshot(file)
    \/ ReloadLoad
    \/ BuildClear
    \/ BuildEntry
    \/ BuildDone

SpecThreads == InitThreads /\ [][NextThreads]_vars

\* the indexes are the ones _build_indexes makes of the loaded records
EngineComplete ==
    LET ix == _build_indexes(search_data)
    IN  /\ owner_index = ix.owner_index
        /\ parcel_index = ix.parcel_index
        /\ address_index = ix.address_index
        /\ word_index = ix.word_index

(***************************************************************************)
(* Properties                                                              *)
(***************************************************************************)
\* a search has returned (not raised)
Searched == call.op = "search" /\ ret.exc = "none"

QueryLower == Strip(Lower(call.query))
QueryWords == Split(QueryLower)

\* the score the path taken sorts by
FinalScore(entry) ==
    IF call.county_filter # <<>>
    THEN FilteredScore(entry, call.query, call.field_filter, call.spatial_params)
    ELSE IndexedScore(entry, call.query, call.field_filter, call.spatial_params)

\* the score before the spatial boost and the flat bonuses
TextScore(entry) ==
    IF call.field_filter # <<>>
    THEN _score_by_fields(entry, QueryLower, QueryWords, call.field_filter)
    ELSE _score_all_fields(entry, QueryLower, QueryWords)

Returned(entry) == \E k \in 1..Len(ret.value) : ret.value[k] = entry

\* the entry is of the county with this code
BelongsTo(entry, code) ==
    StartsWith(Get(entry, "global_parcel_uid"), code \o <<"_">>)

\* C1: search returns at most 200 records, and no record has a lower final
\* score than a record after it.
C1_AtMost200Sorted ==
    Searched =>
        /\ Len(ret.value) <= MaxResults
        /\ \A i \in 1..(Len(ret.value) - 1) :
               FinalScore(ret.value[i]) >= FinalScore(ret.value[i + 1])

\* more than 200 records scored, 200 returned, of different scores
C1_Witness ==
    /\ Searched
    /\ Len(search_data) > MaxResults
    /\ Len(ret.value) = MaxResults
    /\ FinalScore(ret.value[1]) > FinalScore(ret.value[MaxResults])

\* C2: a search that runs while reload_search_data is under way reads a
\* record array and indexes that belong together: the complete old state or
\* the complete new one.
C2_ReloadAtomic ==
    [][(call = Idle /\ call' # Idle /\ call'.op = "search") => EngineComplete]_vars

\* C3: with a county filter every returned record is of a filtered county.
C3_CountyFilterExcludes ==
    (Searched /\ call.county_filter # <<>>) =>
        \A i \in 1..Len(ret.value) :
            \E k \in 1..Len(call.county_filter) :
                BelongsTo(ret.value[i], call.county_filter[k])

\* a record of another county with the owner of a returned record is left out
C3_Witness ==
    /\ Searched
    /\ call.county_filter = <<T_ada_county_id>>
    /\ ret.value # <<>>
    /\ \E i \in 1..Len(search_data) :
           /\ ~BelongsTo(search_data[i], T_ada_county_id)
           /\ Get(search_data[i], "owner") = Get(ret.value[1], "owner")
           /\ ~Returned(search_data[i])

\* C4: GET /search with counties = "Ada County" answers what a search
\* filtered to the county code ada_county_id answers, cut to the limit.
C4_LabelsTranslated ==
    (call.op = "search_properties" /\ call.counties = T_Ada_County
     /\ ~EmptyQuery(call.q)) =>
        LET found == search(call.q, <<T_ada_county_id>>, <<>>, <<>>).value
            want == [i \in 1..Len(found) |-> SearchResult(found[i])]
        IN  /\ ret.value.status = 200
            /\ ret.value.results =
                   IF call.limit > 0 THEN Take(want, call.limit) ELSE want

\* C5: a search for the exact normalized owner of a loaded record returns
\* that record.
C5_SelfMatch ==
    (Searched /\ call.county_filter = <<>> /\ call.field_filter = <<>>) =>
        \A i \in 1..Len(search_data) :
            (Get(search_data[i], "owner") # <<>>
             /\ call.query = Get(search_data[i], "owner"))
                => Returned(search_data[i])

\* C6: with field_filter = ['pidn'] every returned record's pidn contains the
\* lowercased query.
C6_PidnOnly ==
    (Searched /\ Len(call.field_filter) = 1
     /\ Lower(call.field_filter[1]) = F_pidn) =>
        \A k \in 1..Len(ret.value) :
            Contains(QueryLower, Lower(Get(ret.value[k], "pidn")))

\* a record is returned for its pidn while a record whose owner or address
\* holds a word of the query is left out
C6_Witness ==
    /\ Searched
    /\ call.field_filter = <<F_pidn>>
    /\ ret.value # <<>>
    /\ \E i \in 1..Len(search_data) :
           /\ ~Returned(search_data[i])
           /\ \/ AnyWordIn(QueryWords, Get(search_data[i], "owner"))
              \/ AnyWordIn(QueryWords, Get(search_data[i], "mailing_address"))

\* C7: without a county filter, on fewer than 200 records, a field-scoped
\* search returns every record of which one of the named fields matches.
C7_AnyFieldMatches ==
    (Searched /\ call.county_filter = <<>> /\ call.field_filter # <<>>
     /\ ~EmptyQuery(call.query) /\ Len(search_data) < MaxResults) =>
        \A i \in 1..Len(search_data) :
            _score_by_fields(search_data[i], QueryLower, QueryWords,
                             call.field_filter) > 0
                => Returned(search_data[i])

\* the owner is the normalized query
ExactOwner(entry) == Get(entry, "owner") = QueryLower

\* exactly one token of the query occurs in the owner
OneTokenOwner(entry) ==
    Cardinality({i \in 1..Len(QueryWords) :
                     Contains(QueryWords[i], Lower(Get(entry, "owner")))}) = 1

\* all-fields mode, no spatial hint, a query of several tokens
AllFieldsMultiToken ==
    /\ Searched
    /\ call.field_filter = <<>>
    /\ call.spatial_params = <<>>
    /\ Len(QueryWords) > 1

Before(a, b) ==
    \A i, j \in 1..Len(ret.value) :
        (ret.value[i] = a /\ ret.value[j] = b) => i < j

\* the points of pidn, the addresses and the flat bonuses
OtherPoints(entry) ==
    FinalScore(entry) - OwnerScore(entry, QueryLower, QueryWords)

NearHint(entry) ==
    LET bbox == Get(entry, "bbox")
        hint == call.spatial_params[1]
    IN  /\ Len(bbox) = 4
        /\ (bbox[1] + bbox[3] - 2 * hint.lon) * (bbox[1] + bbox[3] - 2 * hint.lon)
           + (bbox[2] + bbox[4] - 2 * hint.lat) * (bbox[2] + bbox[4] - 2 * hint.lat)
           < 4 * VeryClose * VeryClose

\* C9: with a spatial hint, of two returned records with the same score
\* before the boost, one with a bbox in the nearest tier comes before one
\* without a bbox.
C9_NearBBoxFirst ==
    (Searched /\ call.spatial_params # <<>>) =>
        \A i \in 1..Len(ret.value) :
            NearHint(ret.value[i]) =>
                \A j \in 1..Len(ret.value) :
                    (Get(ret.value[j], "bbox") = <<>>
                     /\ TextScore(ret.value[i]) = TextScore(ret.value[j]))
                        => i < j

\* the record with the near bbox was loaded after the one without a bbox
C9_Witness ==
    /\ Searched
    /\ call.spatial_params # <<>>
    /\ call.county_filter = <<>>
    /\ \E a, b \in 1..Len(search_data) :
           /\ b < a
           /\ NearHint(search_data[a])
           /\ Get(search_data[b], "bbox") = <<>>
           /\ TextScore(search_data[a]) = TextScore(search_data[b])
           /\ Returned(search_data[a])
           /\ Returned(search_data[b])
           /\ Len(ret.value) = 2
           /\ ret.value[1] = search_data[a]

\* C10: a search with an empty or whitespace-only query returns an empty
\* list and raises nothing.
C10_EmptyQueryEmptyResult ==
    (call.op = "search" /\ Strip(call.query) = <<>>) => ret = Ok(<<>>)

\* a whitespace-only query against loaded records, with every filter given
C10_Witness ==
    /\ call.op = "search"
    /\ call.query = <<" ", "\t">>
    /\ search_data # <<>>
    /\ call.county_filter # <<>>
    /\ call.field_filter # <<>>
    /\ call.spatial_params # <<>>
    /\ ret = Ok(<<>>)

\* every index is empty
NoIndexEntries ==
    /\ owner_index = EmptyIndex
    /\ parcel_index = EmptyIndex
    /\ address_index = EmptyIndex
    /\ word_index = EmptyIndex

EngineEmpty == search_data = <<>> /\ NoIndexEntries

\* the file is there, is JSON, and every record of it is well formed
WellFormed(entry) == ~PreCleanRaises(entry)

Available(file) ==
    /\ file.present
    /\ file.parsable
    /\ \A i \in 1..Len(file.records) : WellFormed(file.records[i])

\* a load has just run: the constructor's or that of reload_search_data
Loading == call.op \in {"__init__", "reload_search_data"}

\* what a load leaves behind, by the state of the file
LoadedFromFile ==
    Loading =>
        /\ (~snapshot.present \/ ~snapshot.parsable) => EngineEmpty
        /\ Available(snapshot) =>
               /\ search_data = _pre_clean_data(snapshot.records)
               /\ EngineComplete

EmptyAnswers ==
    (EngineEmpty /\ call.op = "search") => ret = Ok(<<>>)

\* C11: when the snapshot is missing or unparsable at construction (or at a
\* reload) the dataset and the four indexes are empty; while they are empty
\* every search returns an empty list; they stay empty until a reload runs,
\* and a reload with a valid snapshot loads and indexes the snapshot's records.
\* (Every state has a step that leaves it, so the state parts are checked in
\* every state.)
C11_MissingSnapshotEmpty ==
    [][/\ LoadedFromFile
       /\ EmptyAnswers
       /\ (EngineEmpty /\ call'.op # "reload_search_data") => EngineEmpty']_vars

\* a search with a query is answered with nothing while the file is unparsable
C11_Witness ==
    /\ snapshot = Unparsable
    /\ EngineEmpty
    /\ call.op = "search"
    /\ ~EmptyQuery(call.query)
    /\ ret = Ok(<<>>)

\* C12: a load skips the malformed records of the snapshot and loads and
\* indexes all the others.
C12_MalformedSkipped ==
    (Loading /\ snapshot.present /\ snapshot.parsable) =>
        /\ search_data =
               _pre_clean_data(SelectSeq(snapshot.records, WellFormed))
        /\ EngineComplete

\* C13: no search raises, whatever fields the loaded records lack and
\* however short their global_parcel_uid is.
C13_NeverRaises ==
    call.op = "search" => ret.exc = "none"

C15_ReloadIdempotent ==
    [][(/\ call.op = "reload_search_data" /\ call'.op = "reload_search_data"
        /\ snapshot' = snapshot)
          => /\ search_data' = search_data
             /\ owner_index' = owner_index
             /\ parcel_index' = parcel_index
             /\ address_index' = address_index
             /\ word_index' = word_index
             /\ ret'.value.total_entries = ret.value.total_entries]_vars

\* a repeated reload of a snapshot with records whose text is cleaned
C15_Witness ==
    /\ call.op = "reload_search_data"
    /\ call.calls = MaxCalls
    /\ ret.value.total_entries = 2
    /\ Len(search_data) = 2
    /\ \E i \in 1..Len(search_data) :
           Get(search_data[i], "owner") # Get(snapshot.records[i], "owner")

\* the sum of the counts of a mapping
RECURSIVE SumOf(_, _)
SumOf(items, keys) ==
    IF keys = {} THEN 0
    ELSE LET k == CHOOSE x \in keys : TRUE
         IN  items[k] + SumOf(items, keys \ {k})

\* C16: get_search_stats returns the number of loaded records and a mapping
\* from county to the number of loaded records of that county, whose counts
\* sum to total_entries; so too for the empty dataset.
C16_StatsMapping ==
    call.op = "get_search_stats" =>
        LET stats == ret.value
        IN  /\ stats.total_entries = Len(search_data)
            /\ stats.counties.type = "dict"
            /\ \A c \in DOMAIN stats.counties.items :
                   stats.counties.items[c] =
                       Cardinality({i \in 1..Len(search_data) :
                                        CountyOf(search_data[i]) = c})
            /\ SumOf(stats.counties.items, DOMAIN stats.counties.items)
                   = stats.total_entries

\* the response of GET /search is a 200
Answered == call.op = "search_properties" /\ ret.value.status = 200

\* the score the core sorted a record of the response by
ResponseScore(result) ==
    IF ParseCounties(call.counties) # <<>>
    THEN FilteredScore(result, call.q, <<>>, <<>>)
    ELSE IndexedScore(result, call.q, <<>>, <<>>)

\* C17: every record in the response of GET /search has a score of at least
\* 300.
C17_ScoreFloor ==
    Answered =>
        \A k \in 1..Len(ret.value.results) :
            ResponseScore(ret.value.results[k]) >= 300

\* what SearchEngine.search returns for the request
CoreResult == search(call.q, ParseCounties(call.counties), <<>>, <<>>).value

\* C18: with a positive limit the response holds the first min(limit, n)
\* records of the core's n <= 200 records, in the core's order, and
\* total_results is the number of records in the response.
C18_LimitPrefix ==
    (Answered /\ call.limit > 0) =>
        LET n == Len(CoreResult)
            results == ret.value.results
        IN  /\ n <= MaxResults
            /\ Len(results) = IF call.limit < n THEN call.limit ELSE n
            /\ \A i \in 1..Len(results) : results[i] = SearchResult(CoreResult[i])
            /\ ret.value.total_results = Len(results)

\* the limit cuts a longer result of records that differ
C18_Witness ==
    /\ Answered
    /\ call.limit > 0
    /\ call.limit < Len(CoreResult)
    /\ Len(ret.value.results) = call.limit
    /\ CoreResult[call.limit] # CoreResult[call.limit + 1]

\* a search in all-fields mode with a query
AllFields == Searched /\ call.field_filter = <<>> /\ ~EmptyQuery(call.query)

\* the contributions as the score table states them
TableOwner(entry) ==
    LET owner == Get(entry, "owner")
    IN  IF Contains(QueryLower, owner) THEN 1000
        ELSE IF \A i \in 1..Len(QueryWords) : Contains(QueryWords[i], owner) THEN 800
        ELSE IF \E i \in 1..Len(QueryWords) : Contains(QueryWords[i], owner) THEN 400
        ELSE 0

TablePidn(entry) ==
    IF Contains(QueryLower, Get(entry, "pidn")) THEN 600 ELSE 0

TableAddress(address) ==
    IF Contains(QueryLower, address) THEN 300
    ELSE IF \E i \in 1..Len(QueryWords) : Contains(QueryWords[i], address) THEN 150
    ELSE 0

\* C19: in all-fields mode the text score of a record is the sum of owner
\* (1000 substring, else 800 all tokens, else 400 any token), pidn (600
\* substring) and each address (300 substring, else 150 any token).
C19_ScoreTable ==
    AllFields =>
        \A i \in 1..Len(search_data) :
            _score_all_fields(search_data[i], QueryLower, QueryWords)
                = TableOwner(search_data[i]) + TablePidn(search_data[i])
                  + TableAddress(Get(search_data[i], "mailing_address"))
                  + TableAddress(Get(search_data[i], "physical_address"))

\* a returned record with all tokens in owner and one token in each address
C19_Witness ==
    /\ AllFields
    /\ \E i \in 1..Len(search_data) :
           /\ Returned(search_data[i])
           /\ TableOwner(search_data[i]) = 800
           /\ TableAddress(Get(search_data[i], "mailing_address")) = 150
           /\ TableAddress(Get(search_data[i], "physical_address")) = 150
           /\ _score_all_fields(search_data[i], QueryLower, QueryWords) = 1100

\* C20: in all-fields mode a record whose pidn starts with the query earns
\* the 500 points of "starts with" on top of the 600 of the substring.
C20_PrefixBonus ==
    AllFields =>
        \A i \in 1..Len(search_data) :
            (Get(search_data[i], "pidn") # <<>>
             /\ StartsWith(Get(search_data[i], "pidn"), QueryLower))
                => ParcelScore(search_data[i], QueryLower) = 600 + 500

\* the answer of the same search without a county filter
Unfiltered ==
    search(call.query, <<>>, call.field_filter, call.spatial_params).value

\* the records are of one county
SameCounty(a, b) ==
    CountyCode(Get(a, "global_parcel_uid")) = CountyCode(Get(b, "global_parcel_uid"))

\* a comes before b in the list of results
BeforeIn(results, a, b) ==
    \A k, l \in 1..Len(results) :
        (results[k] = a /\ results[l] = b) => k < l

\* C21: two records of one county that a county-filtered search and the
\* same search without a county filter both return are in the same relative
\* order in the two results.
C21_FilterKeepsOrder ==
    (Searched /\ call.county_filter # <<>>) =>
        \A i, j \in 1..Len(ret.value) :
            (i < j /\ SameCounty(ret.value[i], ret.value[j])) =>
                BeforeIn(Unfiltered, ret.value[i], ret.value[j])

\* a search that went through the indexes
IndexedSearch ==
    /\ Searched
    /\ call.county_filter = <<>>
    /\ search_data # <<>>
    /\ ~EmptyQuery(call.query)

\* the positions _fast_search returns
Retrieved ==
    LET found == _fast_search(call.query)
    IN  {found[i] : i \in 1..Len(found)}

\* C22: retrieval stops early only when the exact lookups alone give 200
\* candidates, and every candidate gathered by then is retrieved.
C22_EarlyStopKeepsCandidates ==
    IndexedSearch =>
        /\ EarlyExit(QueryLower, QueryWords) =>
               Cardinality(ExactMatches(QueryLower)) >= MaxResults
        /\ ExactMatches(QueryLower) \cup WordMatches(QueryWords) \subseteq Retrieved

\* the positions of the loaded records, as the indexes count them
Positions == 0..(Len(search_data) - 1)

\* the normalized text of a field of the record at a position
Normalized(idx, field) == _clean_text_for_search(Get(search_data[idx + 1], field))

\* the words of the normalized owner and addresses of the record
WordsOf(idx) ==
    LET ws(field) == Split(Normalized(idx, field))
        set(words) == {words[k] : k \in 1..Len(words)}
    IN  set(ws("owner")) \cup set(ws("mailing_address"))
        \cup set(ws("physical_address"))

\* the non-empty prefixes of the normalized pidn of the record
PidnPrefixes(idx) ==
    {SubSeq(Normalized(idx, "pidn"), 1, n) : n \in 1..Len(Normalized(idx, "pidn"))}

\* C23: after every index build a position is in the bucket of a string in
\* parcel_index exactly when the string is the record's normalized pidn or a
\* prefix of it of 3 characters or more, and in the bucket of a word in
\* word_index exactly when the word has more than 2 characters and is a word
\* of the record's normalized owner, mailing_address or physical_address.
C23_IndexMembership ==
    Loading =>
        /\ \A p \in DOMAIN parcel_index \cup UNION {PidnPrefixes(i) : i \in Positions} :
               \A i \in Positions :
                   i \in Bucket(parcel_index, p)
                   <=> \/ p = Normalized(i, "pidn")
                       \/ Len(p) >= MinPrefixLen /\ p \in PidnPrefixes(i)
        /\ \A w \in DOMAIN word_index \cup UNION {WordsOf(i) : i \in Positions} :
               \A i \in Positions :
                   i \in Bucket(word_index, w)
                   <=> Len(w) > MinWordLen /\ w \in WordsOf(i)

\* a build of a record with a pidn of 2 characters and address words of 1
\* character, next to a record indexed by the prefixes of its pidn
C23_Witness ==
    /\ Loading
    /\ \E i, j \in Positions :
           /\ Len(Normalized(i, "pidn")) = 2
           /\ i \in Bucket(parcel_index, Normalized(i, "pidn"))
           /\ \E w \in WordsOf(i) : Len(w) = 1 /\ w \notin DOMAIN word_index
           /\ \E w \in WordsOf(i) : Len(w) > MinWordLen /\ i \in Bucket(word_index, w)
           /\ Len(Normalized(j, "pidn")) > MinPrefixLen
           /\ j \in Bucket(parcel_index, SubSeq(Normalized(j, "pidn"), 1, MinPrefixLen))
           /\ SubSeq(Normalized(j, "pidn"), 1, 2) \notin DOMAIN parcel_index

\* the keys _fast_search looks up for the query
LookedUp ==
    {QueryLower}
    \cup {QueryWords[k] : k \in 1..Len(QueryWords)}
    \cup {SubSeq(QueryLower, 1, n) : n \in 1..Len(QueryLower)}

\* C24: search and get_search_stats leave the loaded records and the keys
\* and buckets of the four indexes as they were; only a reload changes them.
C24_ReadsChangeNothing ==
    [][/\ call'.op \in {"search", "get_search_stats"} => engineVars' = engineVars
       /\ engineVars' # engineVars => call'.op = "reload_search_data"]_vars

\* a search through the indexes of a query none of whose keys is in any index
C24_Witness ==
    /\ IndexedSearch
    /\ parcel_index # EmptyIndex
    /\ LookedUp \cap (DOMAIN owner_index \cup DOMAIN parcel_index
                      \cup DOMAIN address_index \cup DOMAIN word_index) = {}

\* the value the field of a loaded record had in the snapshot: the one
\* _pre_clean_data kept under <field>_original, or the untouched value
SnapshotValue(entry, field) ==
    IF OriginalKey(field) \in DOMAIN entry
    THEN entry[OriginalKey(field)]
    ELSE Get(entry, field)

\* C25: in every record search returns, owner, pidn, mailing_address,
\* physical_address and county hold the values the record has in the
\* snapshot.
C25_ValuesAsInSnapshot ==
    Searched =>
        \A k \in 1..Len(ret.value) : \A i \in 1..Len(text_fields) :
            Get(ret.value[k], text_fields[i])
                = SnapshotValue(ret.value[k], text_fields[i])

\* the records in the order in which the search scores them: the records of
\* the filtered counties in dataset order, or the candidates of _fast_search
ScoredOrder ==
    IF call.county_filter # <<>>
    THEN SelectSeq(search_data, LAMBDA e : InCounties(e, call.county_filter))
    ELSE [k \in 1..Len(_fast_search(call.query)) |->
              search_data[_fast_search(call.query)[k] + 1]]

\* the records with their final scores
WithScores(entries) ==
    [k \in 1..Len(entries) |-> [entry |-> entries[k], score |-> FinalScore(entries[k])]]

\* the first list is the beginning of the second
IsPrefix(first, second) ==
    /\ Len(first) <= Len(second)
    /\ first = SubSeq(second, 1, Len(first))

\* C26: results of equal final score are in the order in which they were
\* scored: dataset order with a county filter, candidate order without.
C26_StableRanking ==
    (Searched /\ search_data # <<>> /\ ~EmptyQuery(call.query)) =>
        LET results == WithScores(ret.value)
            scored == WithScores(ScoredOrder)
        IN  \A v \in {results[k].score : k \in 1..Len(results)} :
                IsPrefix(SelectSeq(results, LAMBDA r : r.score = v),
                         SelectSeq(scored, LAMBDA r : r.score = v))

\* a county-filtered search returns two records with different owners and
\* the same final score
C26_Witness ==
    /\ Searched
    /\ call.county_filter # <<>>
    /\ Len(ret.value) = 2
    /\ Get(ret.value[1], "owner") # Get(ret.value[2], "owner")
    /\ FinalScore(ret.value[1]) = FinalScore(ret.value[2])

\* every position held in a bucket of the index
PositionsIn(index) ==
    UNION {{index[key][k] : k \in 1..Len(index[key])} : key \in DOMAIN index}

\* C27: after construction and after every reload, every position in a
\* bucket of the four indexes is a position of the loaded dataset, and the
\* indexes are the ones built from that dataset alone.
C27_IndexesMatchDataset ==
    Loading =>
        /\ PositionsIn(owner_index) \cup PositionsIn(parcel_index)
           \cup PositionsIn(address_index) \cup PositionsIn(word_index)
               \subseteq Positions
        /\ EngineComplete

\* a reload has fallen back to an empty dataset, the snapshot being missing
\* or unreadable
C27_Witness ==
    /\ call.op = "reload_search_data"
    /\ ~Available(snapshot)
    /\ search_data = <<>>
    /\ NoIndexEntries

\* C28: in a dataset of fewer than 200 records, a search for the owner of a
\* record, written as in the snapshot, returns the record.
C28_OwnerAsWrittenFound ==
    (/\ Searched
     /\ call.county_filter = <<>>
     /\ call.field_filter = <<>>
     /\ Len(search_data) < MaxResults) =>
        \A i \in 1..Len(search_data) :
            (/\ SnapshotValue(search_data[i], "owner") # <<>>
             /\ call.query = SnapshotValue(search_data[i], "owner"))
            => Returned(search_data[i])

\* the record is in the list
In(results, entry) == \E k \in 1..Len(results) : results[k] = entry

\* every record of the first list is in the second, if that one is not full
WithinUnlessFull(first, second) ==
    Len(second) < MaxResults =>
        \A k \in 1..Len(first) : In(second, first[k])

\* C29: when the search without a county filter returns fewer than 200
\* records, every record the county-filtered search returns is among them.
C29_FilteredWithinUnfiltered ==
    (Searched /\ call.county_filter # <<>>) =>
        WithinUnlessFull(ret.value, Unfiltered)

\* C30: every record search returns has a positive text score for the query
\* in the mode of the search; the spatial boost and the flat bonuses alone
\* return no record.
C30_PositiveTextScore ==
    Searched => \A k \in 1..Len(ret.value) : TextScore(ret.value[k]) > 0

\* a county-filtered search with a spatial hint returns a record and leaves
\* out a record of a filtered county that matches no text, is near the hint
\* and has a physical_address and a clerk_rec
C30_Witness ==
    /\ Searched
    /\ call.spatial_params # <<>>
    /\ call.county_filter # <<>>
    /\ ret.value # <<>>
    /\ \E i \in 1..Len(search_data) :
           /\ InCounties(search_data[i], call.county_filter)
           /\ TextScore(search_data[i]) = 0
           /\ _calculate_spatial_boost(search_data[i], call.spatial_params) > 0
           /\ FlatBonus(search_data[i]) > 0
           /\ ~Returned(search_data[i])


====
